---- MODULE Spec2Model ----
(***************************************************************************)
(* The two resource handlers of the provider, aws_cognito_user_pool_client *)
(* (internal/service/cognitoidp/user_pool_client.go) and                   *)
(* aws_cloudwatch_log_stream (internal/service/logs/stream.go), and the    *)
(* log-stream name validator, as one state machine.  A run exercises one   *)
(* handler (variable handler): the handlers share no state.  Two more kinds*)
(* of run apply functions of the handlers to inputs drawn in the initial   *)
(* state: the log-stream lookup page by page, and the mapping of the nested*)
(* blocks.                                                                 *)
(*                                                                         *)
(* Go strings are tuples of one-character strings, so that strings.Split,  *)
(* len and the colon test are computed.  An AWS SDK pointer is <<>> (nil)  *)
(* or <<v>>; a plugin-framework value is Null or Value(v).                 *)
(***************************************************************************)
EXTENDS Integers, Sequences, FiniteSets, TLC

\* ------------------------------------------------------------------ bounds
\* Longest import identifier the orchestrator passes in, in characters.
MaxIdLen == 4
\* Calls of the remote update that fit into the two-minute retry budget.
MaxAttempts == 3
\* Longest number of consecutive conflict answers the remote gives.
MaxConflicts == MaxAttempts + 1
\* Most pages the remote service cuts one listing into.
MaxPages == 3
\* Longest of the short names handed to the name validator.
MaxNameLen == 6

VARIABLES
  handler,      \* which handler this run exercises
  upcState,     \* UserPoolClient: the stored state (response.State)
  upcRemote,    \* UserPoolClient: the client held by the remote service
  upcResult,    \* UserPoolClient: outcome of the last operation
  upcPc,        \* UserPoolClient: "idle", or "retry" inside Update's retry loop
  upcUpd,       \* UserPoolClient: the Update in flight
  upcDrift,     \* UserPoolClient: the remote client changed out of band since the
                \* last successful create, read or update
  lsD,          \* LogStream: the stored schema.ResourceData
  lsRemote,     \* LogStream: the log groups and streams held by the remote service
  lsResult,     \* LogStream: outcome of the last operation
  vName,        \* validStreamName: the value last validated
  vErrors,      \* validStreamName: the errors it returned
  find,         \* FindLogStreamByTwoPartKey: one lookup, page by page
  nested        \* nested blocks: one list, expanded and flattened again

upcVars == <<upcState, upcRemote, upcResult, upcPc, upcUpd, upcDrift>>
lsVars == <<lsD, lsRemote, lsResult>>
vVars == <<vName, vErrors>>
vars == <<handler, upcState, upcRemote, upcResult, upcPc, upcUpd, upcDrift,
          lsD, lsRemote, lsResult, vName, vErrors, find, nested>>

\* ------------------------------------------------------------ Go strings
RECURSIVE SeqsUpTo(_, _)
\* All strings over the characters cs of length at most n.
SeqsUpTo(cs, n) ==
  IF n = 0 THEN {<<>>}
  ELSE LET shorter == SeqsUpTo(cs, n - 1)
       IN shorter \cup {Append(s, c) : s \in shorter, c \in cs}

\* Index of the first occurrence of the character sep in s, 0 if none.
IndexOf(s, sep) ==
  IF \E i \in 1..Len(s) : s[i] = sep
  THEN CHOOSE i \in 1..Len(s) : s[i] = sep /\ \A j \in 1..(i - 1) : s[j] # sep
  ELSE 0

RECURSIVE Split(_, _)
\* strings.Split(s, sep) for a one-character separator.
Split(s, sep) ==
  LET i == IndexOf(s, sep)
  IN IF i = 0 THEN <<s>>
     ELSE <<SubSeq(s, 1, i - 1)>> \o Split(SubSeq(s, i + 1, Len(s)), sep)

\* ------------------------------------------- framework values, conversions
Null == <<"null">>
Value(v) == <<"value", v>>
IsNull(x) == x = Null
ValueOf(x) == x[2]

\* flex.StringToFramework, flex.Int64ToFramework, flex.BoolToFramework
ToFramework(p) == IF p = <<>> THEN Null ELSE Value(p[1])
\* flex.StringFromFramework, flex.Int64FromFramework, flex.BoolFromFramework
FromFramework(x) == IF IsNull(x) THEN <<>> ELSE <<ValueOf(x)>>
\* flex.StringToFrameworkLegacy: a nil pointer becomes the empty string
StringToFrameworkLegacy(p) == IF p = <<>> THEN Value(<<>>) ELSE Value(p[1])
\* flex.Int64ToFrameworkLegacy: a nil pointer becomes zero
Int64ToFrameworkLegacy(p) == IF p = <<>> THEN Value(0) ELSE Value(p[1])
\* flex.Int64FromFrameworkLegacy: null and zero become nil
Int64FromFrameworkLegacy(x) ==
  IF IsNull(x) \/ ValueOf(x) = 0 THEN <<>> ELSE <<ValueOf(x)>>
\* flex.FlattenFrameworkStringSetLegacy: a nil slice becomes the empty set
FlattenFrameworkStringSetLegacy(p) == IF p = <<>> THEN Value({}) ELSE Value(p[1])
\* flex.ExpandFrameworkStringSet: a null set becomes a nil slice
ExpandFrameworkStringSet(x) == IF IsNull(x) THEN <<>> ELSE <<ValueOf(x)>>

\* ------------------------------------------------ nested singleton blocks
\* analyticsConfiguration.expand
analyticsExpand(ac) ==
  [ApplicationArn |-> FromFramework(ac.application_arn),
   ApplicationId  |-> FromFramework(ac.application_id),
   ExternalId     |-> FromFramework(ac.external_id),
   RoleArn        |-> FromFramework(ac.role_arn),
   UserDataShared |-> FromFramework(ac.user_data_shared)]

\* expandAnaylticsConfiguration: a null list decodes to no element.
expandAnaylticsConfiguration(list) ==
  LET analytics == IF IsNull(list) THEN <<>> ELSE ValueOf(list)
  IN IF Len(analytics) = 1 THEN <<analyticsExpand(analytics[1])>> ELSE <<>>

\* flattenAnaylticsConfiguration
flattenAnaylticsConfiguration(ac) ==
  IF ac = <<>> THEN Null
  ELSE Value(<<[application_arn  |-> ToFramework(ac[1].ApplicationArn),
                application_id   |-> ToFramework(ac[1].ApplicationId),
                external_id      |-> ToFramework(ac[1].ExternalId),
                role_arn         |-> ToFramework(ac[1].RoleArn),
                user_data_shared |-> ToFramework(ac[1].UserDataShared)]>>)

\* tokenValidityUnits.expand
tokenValidityUnitsExpand(tvu) ==
  [AccessToken  |-> FromFramework(tvu.access_token),
   IdToken      |-> FromFramework(tvu.id_token),
   RefreshToken |-> FromFramework(tvu.refresh_token)]

\* expandTokenValidityUnits
expandTokenValidityUnits(list) ==
  LET units == IF IsNull(list) THEN <<>> ELSE ValueOf(list)
  IN IF Len(units) = 1 THEN <<tokenValidityUnitsExpand(units[1])>> ELSE <<>>

\* flattenTokenValidityUnits giving a null list as soon as one unit is unset.
flattenTokenValidityUnitsAnyNil(tvu) ==
  IF tvu = <<>>
     \/ (tvu[1].AccessToken = <<>> \/ tvu[1].IdToken = <<>> \/ tvu[1].RefreshToken = <<>>)
  THEN Null
  ELSE Value(<<[access_token  |-> ToFramework(tvu[1].AccessToken),
                id_token      |-> ToFramework(tvu[1].IdToken),
                refresh_token |-> ToFramework(tvu[1].RefreshToken)]>>)

\* flattenTokenValidityUnits
flattenTokenValidityUnits(tvu) ==
  IF tvu = <<>>
     \/ (tvu[1].AccessToken = <<>> /\ tvu[1].IdToken = <<>> /\ tvu[1].RefreshToken = <<>>)
  THEN Null
  ELSE Value(<<[access_token  |-> ToFramework(tvu[1].AccessToken),
                id_token      |-> ToFramework(tvu[1].IdToken),
                refresh_token |-> ToFramework(tvu[1].RefreshToken)]>>)

\* ------------------------------------------- resourceUserPoolClientData
\* The attributes modelled: one per conversion the handler uses.
NullData ==
  [ID |-> Null, UserPoolID |-> Null, Name |-> Null, ClientSecret |-> Null,
   GenerateSecret |-> Null, AccessTokenValidity |-> Null,
   AuthSessionValidity |-> Null, ExplicitAuthFlows |-> Null,
   AnalyticsConfiguration |-> Null, TokenValidityUnits |-> Null]

\* cognitoidentityprovider.UserPoolClientType with every pointer nil
NilClient ==
  [ClientId |-> <<>>, UserPoolId |-> <<>>, ClientName |-> <<>>, ClientSecret |-> <<>>,
   AccessTokenValidity |-> <<>>, AuthSessionValidity |-> <<>>,
   ExplicitAuthFlows |-> <<>>, AnalyticsConfiguration |-> <<>>,
   TokenValidityUnits |-> <<>>]

\* update() leaving the id as the data holds it.
updateIDKept(data, in) == data.ID

\* The identifier the assigned field of update() takes its value from.
updateID(data, in) == ToFramework(in.ClientId)

\* update() with the assignment of client_secret left out.
updateKeepsSecret(data, in) ==
  [data EXCEPT
     !.AccessTokenValidity    = Int64ToFrameworkLegacy(in.AccessTokenValidity),
     !.AnalyticsConfiguration = flattenAnaylticsConfiguration(in.AnalyticsConfiguration),
     !.AuthSessionValidity    = ToFramework(in.AuthSessionValidity),
     !.ExplicitAuthFlows      = FlattenFrameworkStringSetLegacy(in.ExplicitAuthFlows),
     !.ID                     = updateID(data, in),
     !.Name                   = ToFramework(in.ClientName),
     !.TokenValidityUnits     = flattenTokenValidityUnits(in.TokenValidityUnits),
     !.UserPoolID             = ToFramework(in.UserPoolId)]

\* resourceUserPoolClientData.update: every field but generate_secret is
\* overwritten from the remote client.
update(data, in) ==
  [data EXCEPT
     !.AccessTokenValidity    = Int64ToFrameworkLegacy(in.AccessTokenValidity),
     !.AnalyticsConfiguration = flattenAnaylticsConfiguration(in.AnalyticsConfiguration),
     !.AuthSessionValidity    = ToFramework(in.AuthSessionValidity),
     !.ClientSecret           = StringToFrameworkLegacy(in.ClientSecret),
     !.ExplicitAuthFlows      = FlattenFrameworkStringSetLegacy(in.ExplicitAuthFlows),
     !.ID                     = updateID(data, in),
     !.Name                   = ToFramework(in.ClientName),
     !.TokenValidityUnits     = flattenTokenValidityUnits(in.TokenValidityUnits),
     !.UserPoolID             = ToFramework(in.UserPoolId)]

\* resourceUserPoolClientData.createInput
createInput(data) ==
  [AccessTokenValidity    |-> Int64FromFrameworkLegacy(data.AccessTokenValidity),
   AnalyticsConfiguration |-> expandAnaylticsConfiguration(data.AnalyticsConfiguration),
   AuthSessionValidity    |-> FromFramework(data.AuthSessionValidity),
   ClientName             |-> FromFramework(data.Name),
   ExplicitAuthFlows      |-> ExpandFrameworkStringSet(data.ExplicitAuthFlows),
   GenerateSecret         |-> FromFramework(data.GenerateSecret),
   TokenValidityUnits     |-> expandTokenValidityUnits(data.TokenValidityUnits),
   UserPoolId             |-> FromFramework(data.UserPoolID)]

\* resourceUserPoolClientData.updateInput
updateInput(data) ==
  [AccessTokenValidity    |-> Int64FromFrameworkLegacy(data.AccessTokenValidity),
   AnalyticsConfiguration |-> expandAnaylticsConfiguration(data.AnalyticsConfiguration),
   AuthSessionValidity    |-> FromFramework(data.AuthSessionValidity),
   ClientId               |-> FromFramework(data.ID),
   ClientName             |-> FromFramework(data.Name),
   ExplicitAuthFlows      |-> ExpandFrameworkStringSet(data.ExplicitAuthFlows),
   TokenValidityUnits     |-> expandTokenValidityUnits(data.TokenValidityUnits),
   UserPoolId             |-> FromFramework(data.UserPoolID)]

\* resourceUserPoolClientData.deleteInput
deleteInput(data) ==
  [ClientId   |-> FromFramework(data.ID),
   UserPoolId |-> FromFramework(data.UserPoolID)]

\* ------------------------------------------------- the Cognito remote service
ErrCodeResourceNotFoundException == "ResourceNotFoundException"
ErrCodeConcurrentModificationException == "ConcurrentModificationException"
ErrCodeInternalErrorException == "InternalErrorException"
\* What a remote call can be made to answer regardless of the remote state.
Faults == {"none", ErrCodeResourceNotFoundException, ErrCodeInternalErrorException}

Pools == {<<"p">>, <<"q">>}
ClientIds == {<<"c">>, <<"d">>}
OneAnalytics ==
  Value(<<[application_arn |-> Value("arn:app"), application_id |-> Null,
           external_id |-> Value("ext"), role_arn |-> Null,
           user_data_shared |-> Value(TRUE)]>>)
OneTokenValidityUnits ==
  Value(<<[access_token |-> Value("hours"), id_token |-> Value("hours"),
           refresh_token |-> Value("days")]>>)

\* The configurations the orchestrator hands to Create and Update (valid ones:
\* user_pool_id and name are required, the nested blocks hold at most one element).
Configs ==
  {[NullData EXCEPT !.UserPoolID = Value(<<"p">>), !.Name = Value(<<"n", "1">>)],
   [NullData EXCEPT !.UserPoolID = Value(<<"p">>), !.Name = Value(<<"n", "2">>),
                    !.AccessTokenValidity = Value(5),
                    !.TokenValidityUnits = OneTokenValidityUnits],
   [NullData EXCEPT !.UserPoolID = Value(<<"p">>), !.Name = Value(<<"n", "1">>),
                    !.GenerateSecret = Value(TRUE),
                    !.AnalyticsConfiguration = OneAnalytics,
                    !.ExplicitAuthFlows = Value({"ADMIN_NO_SRP_AUTH"})],
   [NullData EXCEPT !.UserPoolID = Value(<<"q">>), !.Name = Value(<<"n", "1">>),
                    !.AuthSessionValidity = Value(5),
                    !.TokenValidityUnits = OneTokenValidityUnits]}

NoState == [present |-> FALSE, data |-> NullData]
NoRemote == [exists |-> FALSE, client |-> NilClient]

\* The client the remote service builds from a create request: it assigns the
\* client id, generates the secret on demand and fills in its own default for
\* the session validity.
RemoteCreatedClient(params, cid) ==
  [ClientId |-> <<cid>>,
   UserPoolId |-> params.UserPoolId,
   ClientName |-> params.ClientName,
   ClientSecret |-> IF params.GenerateSecret = <<TRUE>> THEN << <<"s">> >> ELSE <<>>,
   AccessTokenValidity |-> params.AccessTokenValidity,
   AuthSessionValidity |->
     IF params.AuthSessionValidity = <<>> THEN <<3>> ELSE params.AuthSessionValidity,
   ExplicitAuthFlows |-> params.ExplicitAuthFlows,
   AnalyticsConfiguration |-> params.AnalyticsConfiguration,
   TokenValidityUnits |-> params.TokenValidityUnits]

\* The client the remote service holds after an update request.
RemoteUpdatedClient(old, params) ==
  [old EXCEPT
     !.ClientName = params.ClientName,
     !.AccessTokenValidity = params.AccessTokenValidity,
     !.AuthSessionValidity =
       IF params.AuthSessionValidity = <<>> THEN <<3>> ELSE params.AuthSessionValidity,
     !.ExplicitAuthFlows = params.ExplicitAuthFlows,
     !.AnalyticsConfiguration = params.AnalyticsConfiguration,
     !.TokenValidityUnits = params.TokenValidityUnits]

\* The remote service holds a client under the key (pool, id).
RemoteHas(pool, id) ==
  /\ upcRemote.exists
  /\ upcRemote.client.UserPoolId = pool
  /\ upcRemote.client.ClientId = id

\* The answer of a remote call addressed to the key (pool, id).
RemoteAnswer(fault, pool, id) ==
  IF fault # "none" THEN fault
  ELSE IF RemoteHas(pool, id) THEN "ok"
  ELSE ErrCodeResourceNotFoundException

\* types.String.ValueString: null reads as the empty string
ValueString(x) == IF IsNull(x) THEN <<>> ELSE ValueOf(x)

\* FindCognitoUserPoolClientByID: the describe call, its resource-not-found
\* error turned into a not-found error.
FindCognitoUserPoolClientByID(fault, userPoolID, clientID) ==
  LET answer == RemoteAnswer(fault, <<userPoolID>>, <<clientID>>)
  IN [kind |-> IF answer = "ok" THEN "found"
               ELSE IF answer = ErrCodeResourceNotFoundException THEN "notfound"
               ELSE "error",
      answer |-> answer,
      client |-> IF answer = "ok" THEN upcRemote.client ELSE NilClient]

\* ------------------------------------------------- UserPoolClient operations
NoResult ==
  [op |-> "none", err |-> FALSE, panic |-> FALSE, calls |-> 0, answer |-> "none",
   lookup |-> "none", req |-> <<>>, wrote |-> FALSE, afterCreate |-> FALSE,
   created |-> <<>>, diag |-> "none", named |-> <<>>]

\* The record of a finished operation: whether it reported an error
\* diagnostic, how many remote calls it issued, what the last one answered,
\* what the lookup by key reported (Read),
\* the key its request carried (for import, the identifier it was called
\* with), and whether it left the stored state
\* different from the one it found (new); afterCreate: the operation before it
\* was a Create that ended without error.  created: the (pool id, client id)
\* the remote create call returned for the stored state, <<>> if the state
\* holds nothing a Create stored; diag: the step before the remote call that
\* recorded an error diagnostic; named: what the error diagnostic about the
\* remote call names.
Result(op, err, calls, answer, req, new) ==
  [op |-> op, err |-> err, panic |-> FALSE, calls |-> calls, answer |-> answer,
   lookup |-> "none", req |-> req, wrote |-> new # upcState,
   afterCreate |-> upcResult.op = "Create" /\ ~upcResult.err,
   created |-> IF new.present THEN upcResult.created ELSE <<>>,
   diag |-> "none", named |-> <<>>]

DiagAt == {"none", "config", "plan", "input"}

\* The handler without the test for an error after building the request.
RejectedBeforeInput(diagAt) == diagAt \in {"config", "plan"}

\* response.Diagnostics.HasError() as Create and Update test it after reading
\* config, after reading plan and after building the request: the handler
\* returns at the first step that recorded an error diagnostic.
Rejected(diagAt) == diagAt \in {"config", "plan", "input"}

\* Create writing the state whatever the create call answered.
CreateStateWritesOnError(answer, config, poolClient) ==
  [present |-> TRUE, data |-> update(config, poolClient)]

\* Create: the state Create leaves, given the create call's answer.
CreateState(answer, config, poolClient) ==
  IF answer # "ok" THEN upcState
  ELSE [present |-> TRUE, data |-> update(config, poolClient)]

\* The key of the client the create call returned.
CreatedKey(answer, poolClient) ==
  IF answer = "ok" THEN <<poolClient.UserPoolId, poolClient.ClientId>> ELSE <<>>

\* Create reading the client back with a second remote call once the create
\* call has succeeded.
CreateReadsBack(config, diagAt, fault, cid) ==
  /\ handler = "UserPoolClient" /\ upcPc = "idle" /\ ~upcState.present
  /\ UNCHANGED <<handler, lsVars, vVars, find, nested, upcPc, upcUpd>>
  /\ IF Rejected(diagAt)
     THEN /\ upcResult' = [Result("Create", TRUE, 0, "none", <<>>, upcState)
                             EXCEPT !.diag = diagAt]
          /\ UNCHANGED <<upcState, upcRemote, upcDrift>>
     ELSE LET plan == config
              params == createInput(plan)
              answer == IF fault # "none" THEN fault ELSE "ok"
              poolClient == RemoteCreatedClient(params, cid)
          IN /\ upcResult' = [Result("Create", answer # "ok",
                                     IF answer = "ok" THEN 2 ELSE 1, answer,
                                     <<params.UserPoolId, <<>> >>,
                                     CreateState(answer, config, poolClient))
                                EXCEPT !.diag = diagAt,
                                       !.created = CreatedKey(answer, poolClient),
                                       !.named = IF answer = "ok" THEN <<>>
                                                 ELSE <<ValueString(plan.Name)>>]
             /\ upcState' = CreateState(answer, config, poolClient)
             /\ IF answer = "ok"
                THEN /\ upcRemote' = [exists |-> TRUE, client |-> poolClient]
                     /\ upcDrift' = FALSE
                ELSE UNCHANGED <<upcRemote, upcDrift>>

\* resourceUserPoolClient.Create
Create(config, diagAt, fault, cid) ==
  /\ handler = "UserPoolClient" /\ upcPc = "idle" /\ ~upcState.present
  /\ UNCHANGED <<handler, lsVars, vVars, find, nested, upcPc, upcUpd>>
  /\ IF Rejected(diagAt)
     THEN /\ upcResult' = [Result("Create", TRUE, 0, "none", <<>>, upcState)
                             EXCEPT !.diag = diagAt]
          /\ UNCHANGED <<upcState, upcRemote, upcDrift>>
     ELSE LET plan == config
              params == createInput(plan)
              answer == IF fault # "none" THEN fault ELSE "ok"
              poolClient == RemoteCreatedClient(params, cid)
          IN /\ upcResult' = [Result("Create", answer # "ok", 1, answer,
                                     <<params.UserPoolId, <<>> >>,
                                     CreateState(answer, config, poolClient))
                                EXCEPT !.diag = diagAt,
                                       !.created = CreatedKey(answer, poolClient),
                                       !.named = IF answer = "ok" THEN <<>>
                                                 ELSE <<ValueString(plan.Name)>>]
             /\ upcState' = CreateState(answer, config, poolClient)
             /\ IF answer = "ok"
                THEN /\ upcRemote' = [exists |-> TRUE, client |-> poolClient]
                     /\ upcDrift' = FALSE
                ELSE UNCHANGED <<upcRemote, upcDrift>>

\* Read removing the state on any failed lookup, not only on not found.
ReadStateRemovesOnError(found, state) ==
  IF found.kind # "found" THEN NoState
  ELSE [present |-> TRUE, data |-> update(state, found.client)]

\* Read: the state Read leaves, given the outcome of the lookup.
ReadState(found, state) ==
  IF found.kind = "notfound" THEN NoState
  ELSE IF found.kind = "error" THEN upcState
  ELSE [present |-> TRUE, data |-> update(state, found.client)]

\* Read: whether Read reports an error diagnostic.
ReadErr(found) == found.kind = "error"

\* resourceUserPoolClient.Read
Read(fault) ==
  /\ handler = "UserPoolClient" /\ upcPc = "idle" /\ upcState.present
  /\ LET state == upcState.data
         found == FindCognitoUserPoolClientByID(fault, ValueString(state.UserPoolID),
                                                ValueString(state.ID))
     IN /\ upcResult' = [Result("Read", ReadErr(found), 1, found.answer,
                                << <<ValueString(state.UserPoolID)>>,
                                   <<ValueString(state.ID)>> >>,
                                ReadState(found, state))
                           EXCEPT !.lookup = found.kind,
                                  !.named = IF found.kind = "error"
                                            THEN <<ValueString(state.ID)>> ELSE <<>>]
        /\ upcState' = ReadState(found, state)
        /\ upcDrift' = IF found.kind = "found" THEN FALSE ELSE upcDrift
  /\ UNCHANGED <<handler, lsVars, vVars, find, nested, upcPc, upcUpd, upcRemote>>

\* Delete without the test for the resource-not-found code.
DeleteErrStrict(answer) == answer # "ok"

\* Delete: whether Delete reports an error diagnostic for the delete call's answer.
DeleteErr(answer) ==
  IF answer = ErrCodeResourceNotFoundException THEN FALSE ELSE answer # "ok"

\* resourceUserPoolClient.Delete
Delete(fault) ==
  /\ handler = "UserPoolClient" /\ upcPc = "idle" /\ upcState.present
  /\ LET params == deleteInput(upcState.data)
         answer == RemoteAnswer(fault, params.UserPoolId, params.ClientId)
     IN /\ upcResult' = [Result("Delete", DeleteErr(answer), 1, answer,
                                <<params.UserPoolId, params.ClientId>>, upcState)
                           EXCEPT !.named = IF DeleteErr(answer)
                                            THEN <<ValueString(upcState.data.ID)>>
                                            ELSE <<>>]
        /\ upcRemote' = IF answer = "ok" THEN NoRemote ELSE upcRemote
  /\ UNCHANGED <<handler, lsVars, vVars, find, nested, upcPc, upcUpd, upcState, upcDrift>>

\* ImportState with the two segments taken in the wrong order.
ImportedStateSwapped(parts) ==
  [present |-> TRUE,
   data |-> [NullData EXCEPT !.ID = Value(parts[1]), !.UserPoolID = Value(parts[2])]]

\* ImportState: the attributes written for the segments of the identifier.
ImportedState(parts) ==
  [present |-> TRUE,
   data |-> [NullData EXCEPT !.ID = Value(parts[2]), !.UserPoolID = Value(parts[1])]]

\* resourceUserPoolClient.ImportState: the error diagnostic for a wrong
\* segment count is added and the handler goes on to index the segments, so a
\* single segment ends in an index-out-of-range panic.  Import is the first
\* operation on a resource the state does not hold yet.
ImportState(requestID) ==
  /\ handler = "UserPoolClient" /\ upcPc = "idle" /\ ~upcState.present
  /\ upcResult.op = "none"
  /\ LET parts == Split(requestID, "/")
         err == Len(parts) # 2
     IN IF Len(parts) < 2
        THEN /\ upcResult' = [Result("ImportState", err, 0, "none", requestID, upcState)
                                EXCEPT !.panic = TRUE]
             /\ upcState' = upcState
        ELSE /\ upcResult' = Result("ImportState", err, 0, "none", requestID, ImportedState(parts))
             /\ upcState' = ImportedState(parts)
  /\ UNCHANGED <<handler, lsVars, vVars, find, nested, upcPc, upcUpd, upcRemote, upcDrift>>

\* --------------------------------------------------------------- Update
NoUpd == [config |-> NullData, plan |-> NullData, params |-> updateInput(NullData),
          attempts |-> 0, conflicts |-> 0, fault |-> "none", diag |-> "none"]

\* tfresource.RetryWhenAWSErrCodeEquals: the call is repeated while it answers
\* with the given error code and the timeout has not run out; the budget of
\* two minutes is MaxAttempts calls.
RetryAgain(answer, code, attempts) ==
  answer = code /\ attempts < MaxAttempts

\* The retry made on the internal-error code.
UpdateRetryCodeInternal == ErrCodeInternalErrorException

\* The error code Update hands to the retry helper.
UpdateRetryCode == ErrCodeConcurrentModificationException

\* Update persisting the configuration instead of the values returned.
UpdateStatePersistsConfig(answer, config, poolClient) ==
  IF answer # "ok" THEN upcState
  ELSE [present |-> TRUE, data |-> [config EXCEPT !.ID = upcState.data.ID]]

\* Update writing the state whatever the retried call returned.
UpdateStateWritesOnError(answer, config, poolClient) ==
  [present |-> TRUE, data |-> update(config, poolClient)]

\* Update: the state Update leaves once the retried call has returned.
UpdateState(answer, config, poolClient) ==
  IF answer # "ok" THEN upcState
  ELSE [present |-> TRUE, data |-> update(config, poolClient)]

\* The plan of an Update: the id attribute (framework.IDAttribute) keeps the
\* value of the prior state, the rest is as configured.
PlanForUpdate(config) == [config EXCEPT !.ID = upcState.data.ID]

\* resourceUserPoolClient.Update up to the retried call: config and plan are
\* read and the request is built from the plan.  The plan carries the id of
\* the prior state; user_pool_id and generate_secret cannot change in place.
\* conflicts is the number of calls the remote will answer with the
\* concurrent-modification code before the conflict clears, fault what it
\* is made to answer after that.
UpdateBegin(config, diagAt, conflicts, fault) ==
  /\ handler = "UserPoolClient" /\ upcPc = "idle" /\ upcState.present
  /\ config.UserPoolID = upcState.data.UserPoolID
  /\ config.GenerateSecret = upcState.data.GenerateSecret
  /\ UNCHANGED <<handler, lsVars, vVars, find, nested, upcState, upcRemote, upcDrift>>
  /\ IF Rejected(diagAt)
     THEN /\ upcResult' = [Result("Update", TRUE, 0, "none", <<>>, upcState)
                             EXCEPT !.diag = diagAt]
          /\ UNCHANGED <<upcPc, upcUpd>>
     ELSE LET plan == PlanForUpdate(config)
          IN /\ upcPc' = "retry"
             /\ upcUpd' = [config |-> config, plan |-> plan,
                           params |-> updateInput(plan), attempts |-> 0,
                           conflicts |-> conflicts, fault |-> fault, diag |-> diagAt]
             /\ UNCHANGED upcResult

\* One call of the remote update inside the retry loop, and, when the loop
\* ends with it, the rest of resourceUserPoolClient.Update.
UpdateAttempt ==
  /\ handler = "UserPoolClient" /\ upcPc = "retry"
  /\ LET params == upcUpd.params
         attempts == upcUpd.attempts + 1
         answer == IF upcUpd.conflicts > 0 THEN ErrCodeConcurrentModificationException
                   ELSE RemoteAnswer(upcUpd.fault, params.UserPoolId, params.ClientId)
         poolClient == RemoteUpdatedClient(upcRemote.client, params)
     IN IF RetryAgain(answer, UpdateRetryCode, attempts)
        THEN /\ upcUpd' = [upcUpd EXCEPT !.attempts = attempts,
                                         !.conflicts = upcUpd.conflicts - 1]
             /\ UNCHANGED <<upcPc, upcState, upcRemote, upcResult, upcDrift>>
        ELSE /\ upcPc' = "idle"
             /\ upcUpd' = NoUpd
             /\ upcResult' = [Result("Update", answer # "ok", attempts, answer,
                                     <<params.UserPoolId, params.ClientId>>,
                                     UpdateState(answer, upcUpd.config, poolClient))
                                EXCEPT !.diag = upcUpd.diag,
                                       !.named = IF answer = "ok" THEN <<>>
                                                 ELSE <<ValueString(upcUpd.plan.ID)>>]
             /\ upcState' = UpdateState(answer, upcUpd.config, poolClient)
             /\ upcRemote' = IF answer = "ok"
                             THEN [exists |-> TRUE, client |-> poolClient]
                             ELSE upcRemote
             /\ upcDrift' = IF answer = "ok" THEN FALSE ELSE upcDrift
  /\ UNCHANGED <<handler, lsVars, vVars, find, nested>>

\* ------------------------------------------------ the remote, out of band
\* The client is deleted at the remote service behind the provider's back.
RemoteDeleted ==
  /\ handler = "UserPoolClient" /\ upcRemote.exists
  /\ upcRemote' = NoRemote
  /\ upcDrift' = TRUE
  /\ UNCHANGED <<handler, lsVars, vVars, find, nested, upcState, upcResult, upcPc, upcUpd>>

\* The client is renamed at the remote service behind the provider's back.
RemoteRenamed ==
  /\ handler = "UserPoolClient" /\ upcRemote.exists
  /\ upcRemote.client.ClientName # << <<"x">> >>
  /\ upcRemote' = [upcRemote EXCEPT !.client.ClientName = << <<"x">> >>]
  /\ upcDrift' = TRUE
  /\ UNCHANGED <<handler, lsVars, vVars, find, nested, upcState, upcResult, upcPc, upcUpd>>

\* The identifiers import is called with.
UPCImportIds == SeqsUpTo({"p", "c", "/"}, MaxIdLen)

UPCInit ==
  /\ upcState = NoState
  /\ upcRemote \in {NoRemote,
                    [exists |-> TRUE,
                     client |-> [NilClient EXCEPT !.ClientId = << <<"c">> >>,
                                                  !.UserPoolId = << <<"p">> >>,
                                                  !.ClientName = << <<"n", "1">> >>]]}
  /\ upcResult = NoResult
  /\ upcPc = "idle"
  /\ upcUpd = NoUpd
  /\ upcDrift = FALSE

UPCNext ==
  \/ \E config \in Configs, diagAt \in DiagAt, fault \in Faults, cid \in ClientIds :
       Create(config, diagAt, fault, cid)
  \/ \E fault \in Faults : Read(fault)
  \/ \E config \in Configs, diagAt \in DiagAt, conflicts \in 0..MaxConflicts,
        fault \in Faults : UpdateBegin(config, diagAt, conflicts, fault)
  \/ UpdateAttempt
  \/ \E fault \in Faults : Delete(fault)
  \/ \E requestID \in UPCImportIds : ImportState(requestID)
  \/ RemoteDeleted
  \/ RemoteRenamed

\* =========================================================== LogStream
ErrCodeResourceAlreadyExistsException == "ResourceAlreadyExistsException"

GroupNames == {<<"g">>}
StreamNames == {<<"a">>, <<"a", "a">>}

\* strings.HasPrefix
HasPrefix(s, prefix) ==
  Len(prefix) <= Len(s) /\ SubSeq(s, 1, Len(prefix)) = prefix

\* The ARN the remote service gives the stream name of the group logGroupName.
StreamArn(logGroupName, name) == <<"#">> \o logGroupName \o <<":">> \o name

\* cloudwatchlogs.LogStream as the remote service lists it
LogStream(logGroupName, name) ==
  [LogStreamName |-> name, Arn |-> StreamArn(logGroupName, name)]

\* All orders in which the elements of the set S can be listed.
Orders(S) ==
  {o \in [1..Cardinality(S) -> S] : \A i, j \in 1..Cardinality(S) : i # j => o[i] # o[j]}

NilPage == [nil |-> TRUE, LogStreams |-> <<>>]
Page(streams) == [nil |-> FALSE, LogStreams |-> streams]

RECURSIVE Splits(_, _)
\* The ways to hand the listing out in exactly k pages, a page holding any
\* number of consecutive streams, or being nil where it would hold none.
Splits(listing, k) ==
  IF k = 0 THEN (IF listing = <<>> THEN {<<>>} ELSE {})
  ELSE UNION {
         {<<first>> \o rest :
            first \in {Page(SubSeq(listing, 1, i))} \cup (IF i = 0 THEN {NilPage} ELSE {}),
            rest \in Splits(SubSeq(listing, i + 1, Len(listing)), k - 1)}
         : i \in 0..Len(listing)}

\* The page sequences DescribeLogStreamsPages can deliver for a listing of
\* the streams of logGroupName whose names start with prefix.
RemotePages(remote, logGroupName, prefix) ==
  LET matching == {st \in remote.streams :
                     st[1] = logGroupName /\ HasPrefix(st[2], prefix)}
  IN UNION {UNION {Splits([i \in 1..Len(o) |-> LogStream(o[i][1], o[i][2])], k)
                     : k \in 1..MaxPages}
              : o \in Orders(matching)}

\* The callback selecting the first stream whose name starts with the name
\* looked up.
PageCallbackPrefix(page, lastPage, name) ==
  IF page.nil THEN [output |-> <<>>, more |-> ~lastPage]
  ELSE LET hits == {i \in 1..Len(page.LogStreams) :
                      HasPrefix(page.LogStreams[i].LogStreamName, name)}
       IN IF hits # {}
          THEN [output |-> <<page.LogStreams[CHOOSE i \in hits : \A j \in hits : i <= j]>>,
                more |-> FALSE]
          ELSE [output |-> <<>>, more |-> ~lastPage]

\* The callback ending the listing at a nil page.
PageCallbackNilEnds(page, lastPage, name) ==
  IF page.nil THEN [output |-> <<>>, more |-> FALSE]
  ELSE LET hits == {i \in 1..Len(page.LogStreams) :
                      page.LogStreams[i].LogStreamName = name}
       IN IF hits # {}
          THEN [output |-> <<page.LogStreams[CHOOSE i \in hits : \A j \in hits : i <= j]>>,
                more |-> FALSE]
          ELSE [output |-> <<>>, more |-> ~lastPage]

\* The callback FindLogStreamByTwoPartKey passes to DescribeLogStreamsPages:
\* the stream it selects from the page, if any, and whether it asks for more.
PageCallback(page, lastPage, name) ==
  IF page.nil THEN [output |-> <<>>, more |-> ~lastPage]
  ELSE LET hits == {i \in 1..Len(page.LogStreams) :
                      page.LogStreams[i].LogStreamName = name}
       IN IF hits # {}
          THEN [output |-> <<page.LogStreams[CHOOSE i \in hits : \A j \in hits : i <= j]>>,
                more |-> FALSE]
          ELSE [output |-> <<>>, more |-> ~lastPage]

RECURSIVE ScanPages(_, _, _)
\* DescribeLogStreamsPages driving the callback from page i on: the stream
\* selected and the number of pages asked for.
ScanPages(pages, name, i) ==
  LET r == PageCallback(pages[i], i = Len(pages), name)
  IN IF r.more /\ i < Len(pages) THEN ScanPages(pages, name, i + 1)
     ELSE [output |-> r.output, asked |-> i]

\* The answer of a remote call addressed to the log group logGroupName.
GroupAnswer(remote, fault, logGroupName) ==
  IF fault # "none" THEN fault
  ELSE IF logGroupName \in remote.groups THEN "ok"
  ELSE ErrCodeResourceNotFoundException

\* FindLogStreamByTwoPartKey
FindLogStreamByTwoPartKey(remote, fault, pages, logGroupName, name) ==
  LET answer == GroupAnswer(remote, fault, logGroupName)
      scan == IF answer = "ok" THEN ScanPages(pages, name, 1)
              ELSE [output |-> <<>>, asked |-> 1]
  IN [kind |-> IF answer = ErrCodeResourceNotFoundException THEN "notfound"
               ELSE IF answer # "ok" THEN "error"
               ELSE IF scan.output = <<>> THEN "notfound"
               ELSE "found",
      output |-> scan.output,
      asked |-> scan.asked]

NoD == [id |-> <<>>, log_group_name |-> <<>>, name |-> <<>>, arn |-> <<>>]

\* resourceStreamRead without the test for a new resource.
resourceStreamReadIgnoresNew(d, isNewResource, ls) ==
  IF ls.kind = "notfound"
  THEN [d |-> [d EXCEPT !.id = <<>>], err |-> FALSE]
  ELSE IF ls.kind # "found"
  THEN [d |-> d, err |-> TRUE]
  ELSE [d |-> [d EXCEPT !.arn = ls.output[1].Arn, !.name = ls.output[1].LogStreamName],
        err |-> FALSE]

\* resourceStreamRead on the ResourceData d: the ResourceData it leaves and
\* the error it returns.
resourceStreamRead(d, isNewResource, ls) ==
  IF ~isNewResource /\ ls.kind = "notfound"
  THEN [d |-> [d EXCEPT !.id = <<>>], err |-> FALSE]
  ELSE IF ls.kind # "found"
  THEN [d |-> d, err |-> TRUE]
  ELSE [d |-> [d EXCEPT !.arn = ls.output[1].Arn, !.name = ls.output[1].LogStreamName],
        err |-> FALSE]

NoLsResult ==
  [op |-> "none", err |-> FALSE, calls |-> 0, asked |-> 0, answer |-> "none",
   lookup |-> "none", absent |-> FALSE, req |-> <<>>, d |-> NoD, resources |-> 0]

\* The record of a finished operation: the error returned, the remote calls
\* other than the listing, the pages of the listing asked for, the answer of
\* the create or delete call, the outcome of the lookup, whether the stream
\* was absent at the remote service when it was looked up, the identifier
\* import was called with, the ResourceData as the handler left it and the
\* number of resources returned (import).
LsResult(op, err, calls, asked, answer, lookup, absent, req, d, resources) ==
  [op |-> op, err |-> err, calls |-> calls, asked |-> asked, answer |-> answer,
   lookup |-> lookup, absent |-> absent, req |-> req, d |-> d,
   resources |-> resources]

\* resourceStreamCreate.  gone: the stream is deleted at the remote service
\* between the create call and the read that follows it.
resourceStreamCreate(name, logGroupName, fault, gone, readFault) ==
  /\ handler = "LogStream" /\ lsD.id = <<>>
  /\ LET d == [lsD EXCEPT !.name = name, !.log_group_name = logGroupName]
         answer == IF fault # "none" THEN fault
                   ELSE IF logGroupName \notin lsRemote.groups
                   THEN ErrCodeResourceNotFoundException
                   ELSE IF <<logGroupName, name>> \in lsRemote.streams
                   THEN ErrCodeResourceAlreadyExistsException
                   ELSE "ok"
     IN IF answer # "ok"
        THEN /\ lsResult' = LsResult("Create", TRUE, 1, 0, answer, "none", FALSE, <<>>, d, 0)
             /\ UNCHANGED <<lsD, lsRemote>>
        ELSE LET created == [lsRemote EXCEPT !.streams = @ \cup {<<logGroupName, name>>}]
                 remote == IF gone THEN lsRemote ELSE created
                 withId == [d EXCEPT !.id = name]
             IN \E pages \in RemotePages(remote, withId.log_group_name, withId.id) :
                  LET ls == FindLogStreamByTwoPartKey(remote, readFault, pages,
                                                      withId.log_group_name, withId.id)
                      read == resourceStreamRead(withId, TRUE, ls)
                  IN /\ lsRemote' = remote
                     /\ lsD' = read.d
                     /\ lsResult' = LsResult("Create", read.err, 1, ls.asked, answer,
                                             ls.kind,
                                             <<withId.log_group_name, withId.id>>
                                               \notin remote.streams,
                                             <<>>, read.d, 0)
  /\ UNCHANGED <<handler, upcVars, vVars, find, nested>>

\* resourceStreamRead as the operation the orchestrator calls on a stored
\* resource.
StreamRead(fault) ==
  /\ handler = "LogStream" /\ lsD.id # <<>>
  /\ \E pages \in RemotePages(lsRemote, lsD.log_group_name, lsD.id) :
       LET ls == FindLogStreamByTwoPartKey(lsRemote, fault, pages,
                                           lsD.log_group_name, lsD.id)
           read == resourceStreamRead(lsD, FALSE, ls)
       IN /\ lsD' = read.d
          /\ lsResult' = LsResult("Read", read.err, 0, ls.asked, "none", ls.kind,
                                  <<lsD.log_group_name, lsD.id>> \notin lsRemote.streams,
                                  <<>>, read.d, 0)
  /\ UNCHANGED <<handler, upcVars, vVars, find, nested, lsRemote>>

\* resourceStreamDelete: the error it returns for the delete call's answer.
StreamDeleteErr(answer) ==
  IF answer = ErrCodeResourceNotFoundException THEN FALSE ELSE answer # "ok"

\* resourceStreamDelete
resourceStreamDelete(fault) ==
  /\ handler = "LogStream" /\ lsD.id # <<>>
  /\ LET answer == IF fault # "none" THEN fault
                   ELSE IF <<lsD.log_group_name, lsD.id>> \in lsRemote.streams THEN "ok"
                   ELSE ErrCodeResourceNotFoundException
     IN /\ lsResult' = LsResult("Delete", StreamDeleteErr(answer), 1, 0, answer,
                                "none", FALSE, <<>>, lsD, 0)
        /\ lsRemote' = IF answer = "ok"
                       THEN [lsRemote EXCEPT
                               !.streams = @ \ {<<lsD.log_group_name, lsD.id>>}]
                       ELSE lsRemote
  /\ UNCHANGED <<handler, upcVars, vVars, find, nested, lsD>>

\* resourceStreamImport rejecting only identifiers of fewer than two segments.
StreamImportedLenient(d) ==
  LET parts == Split(d.id, ":")
  IN IF Len(parts) < 2
     THEN [d |-> d, resources |-> <<>>, err |-> TRUE]
     ELSE LET imported == [d EXCEPT !.id = parts[2], !.log_group_name = parts[1]]
          IN [d |-> imported, resources |-> <<imported>>, err |-> FALSE]

\* resourceStreamImport on the ResourceData d, whose id is the import
\* identifier: the ResourceData it leaves, the resources it returns, the error.
StreamImported(d) ==
  LET parts == Split(d.id, ":")
  IN IF Len(parts) # 2
     THEN [d |-> d, resources |-> <<>>, err |-> TRUE]
     ELSE LET imported == [d EXCEPT !.id = parts[2], !.log_group_name = parts[1]]
          IN [d |-> imported, resources |-> <<imported>>, err |-> FALSE]

\* resourceStreamImport: import is the first operation on a resource the
\* state does not hold yet; what it returns is what gets stored.
resourceStreamImport(importID) ==
  /\ handler = "LogStream" /\ lsD.id = <<>> /\ lsResult.op = "none"
  /\ LET r == StreamImported([NoD EXCEPT !.id = importID])
     IN /\ lsD' = IF r.resources = <<>> THEN lsD ELSE r.resources[1]
        /\ lsResult' = LsResult("Import", r.err, 0, 0, "none", "none", FALSE, importID,
                                r.d, Len(r.resources))
  /\ UNCHANGED <<handler, upcVars, vVars, find, nested, lsRemote>>

\* A stream is deleted at the remote service behind the provider's back.
StreamDeletedRemotely ==
  /\ handler = "LogStream"
  /\ \E st \in lsRemote.streams : lsRemote' = [lsRemote EXCEPT !.streams = @ \ {st}]
  /\ UNCHANGED <<handler, upcVars, vVars, find, nested, lsD, lsResult>>

\* A log group is deleted at the remote service, with its streams.
GroupDeletedRemotely ==
  /\ handler = "LogStream"
  /\ \E g \in lsRemote.groups :
       lsRemote' = [groups |-> lsRemote.groups \ {g},
                    streams |-> {st \in lsRemote.streams : st[1] # g}]
  /\ UNCHANGED <<handler, upcVars, vVars, find, nested, lsD, lsResult>>

\* Another stream appears in a log group at the remote service.
StreamCreatedRemotely ==
  /\ handler = "LogStream"
  /\ \E g \in lsRemote.groups, n \in StreamNames :
       /\ <<g, n>> \notin lsRemote.streams
       /\ lsRemote' = [lsRemote EXCEPT !.streams = @ \cup {<<g, n>>}]
  /\ UNCHANGED <<handler, upcVars, vVars, find, nested, lsD, lsResult>>

\* The identifiers import is called with.
LSImportIds == SeqsUpTo({"g", "a", ":"}, MaxIdLen)

LSInit ==
  /\ lsD = NoD
  /\ lsRemote = [groups |-> GroupNames, streams |-> {}]
  /\ lsResult = NoLsResult

LSNext ==
  \/ \E name \in StreamNames, g \in GroupNames, fault \in Faults, gone \in BOOLEAN,
        readFault \in Faults : resourceStreamCreate(name, g, fault, gone, readFault)
  \/ \E fault \in Faults : StreamRead(fault)
  \/ \E fault \in Faults : resourceStreamDelete(fault)
  \/ \E importID \in LSImportIds : resourceStreamImport(importID)
  \/ StreamDeletedRemotely
  \/ GroupDeletedRemotely
  \/ StreamCreatedRemotely

\* =========================================== FindLogStreamByTwoPartKey
\* The lookup on its own, one page of the listing at a time.  kind is
\* "running" while the listing goes on, then what the lookup returns.
NoFind ==
  [remote |-> [groups |-> {}, streams |-> {}], fault |-> "none",
   logGroupName |-> <<>>, name |-> <<>>, pages |-> <<NilPage>>,
   asked |-> 0, output |-> <<>>, kind |-> "none"]

\* What the remote service holds when the lookup starts.
FindRemotes ==
  {r \in [groups : SUBSET GroupNames, streams : SUBSET (GroupNames \X StreamNames)] :
     \A st \in r.streams : st[1] \in r.groups}

\* The lookups: what the remote holds, the fault of the listing call, the
\* key looked up and the pages the listing is handed out in.
FindInputs ==
  UNION {{[NoFind EXCEPT !.remote = remote, !.fault = fault, !.logGroupName = g,
                         !.name = name, !.pages = pages, !.kind = "running"] :
            pages \in RemotePages(remote, g, name)} :
         remote \in FindRemotes, fault \in Faults, g \in GroupNames, name \in StreamNames}

\* One call of DescribeLogStreams: the call fails, or it delivers the next
\* page, which the callback looks at.
FindPage ==
  /\ handler = "FindLogStreamByTwoPartKey" /\ find.kind = "running"
  /\ LET answer == GroupAnswer(find.remote, find.fault, find.logGroupName)
         i == find.asked + 1
         r == PageCallback(find.pages[i], i = Len(find.pages), find.name)
     IN find' = IF answer = ErrCodeResourceNotFoundException
                THEN [find EXCEPT !.asked = i, !.kind = "notfound"]
                ELSE IF answer # "ok"
                THEN [find EXCEPT !.asked = i, !.kind = "error"]
                ELSE [find EXCEPT !.asked = i, !.output = r.output,
                                  !.kind = IF r.more /\ i < Len(find.pages) THEN "running"
                                           ELSE IF r.output = <<>> THEN "notfound"
                                           ELSE "found"]
  /\ UNCHANGED <<handler, upcVars, lsVars, vVars, nested>>

FindInit ==
  find \in IF handler = "FindLogStreamByTwoPartKey" THEN FindInputs ELSE {NoFind}

FindNext == FindPage

\* ===================================================== validStreamName
MinStreamNameLen == 1
MaxStreamNameLen == 512

\* regexp.MustCompile(`:`).MatchString
MatchesColon(value) == \E i \in 1..Len(value) : value[i] = ":"

\* validStreamName with the upper limit off by one.
validStreamNameOffByOne(value) ==
  (IF MatchesColon(value) THEN <<"colons not allowed">> ELSE <<>>)
  \o (IF Len(value) < MinStreamNameLen \/ Len(value) >= MaxStreamNameLen
      THEN <<"must be between 1 and 512 characters">> ELSE <<>>)

\* validStreamName: the errors it appends, in order.
validStreamName(value) ==
  (IF MatchesColon(value) THEN <<"colons not allowed">> ELSE <<>>)
  \o (IF Len(value) < MinStreamNameLen \/ Len(value) > MaxStreamNameLen
      THEN <<"must be between 1 and 512 characters">> ELSE <<>>)

\* The names handed to the validator: every short name, and names around
\* the upper length limit, without a colon and with one.
NameInputs ==
  SeqsUpTo({"a", ":"}, MaxNameLen)
  \cup {[i \in 1..n |-> "a"] : n \in (MaxStreamNameLen - 2)..(MaxStreamNameLen + 2)}
  \cup {[i \in 1..n |-> IF i = n THEN ":" ELSE "a"] :
          n \in (MaxStreamNameLen - 2)..(MaxStreamNameLen + 2)}

\* The schema's ValidateFunc applied to a configured name.
Validate(value) ==
  /\ handler = "validStreamName"
  /\ vName' = value
  /\ vErrors' = validStreamName(value)
  /\ UNCHANGED <<handler, upcVars, lsVars, find, nested>>

VInit ==
  /\ vName = <<"a">>
  /\ vErrors = <<>>

VNext == \E value \in NameInputs : Validate(value)

\* ================================================= nested block mapping
\* The two nested singleton blocks, by the attribute that holds them.
Blocks == {"analytics_configuration", "token_validity_units"}

\* The elements of an analytics_configuration list.
AnalyticsElements ==
  [application_arn : {Null, Value("arn:app")}, application_id : {Null, Value("app")},
   external_id : {Null, Value("ext")}, role_arn : {Null, Value("arn:role")},
   user_data_shared : {Null, Value(TRUE), Value(FALSE)}]

\* cognitoidentityprovider.TimeUnitsType_Values(), two of them
TimeUnits == {"hours", "days"}

\* The elements of a token_validity_units list.
TokenValidityUnitsElements ==
  [access_token : {Null} \cup {Value(u) : u \in TimeUnits},
   id_token : {Null} \cup {Value(u) : u \in TimeUnits},
   refresh_token : {Null} \cup {Value(u) : u \in TimeUnits}]

\* The lists of a block the schema admits (listvalidator.SizeAtMost(1)):
\* null, empty, or of one element.
BlockLists(block) ==
  {Null, Value(<<>>)}
  \cup {Value(<<e>>) : e \in IF block = "analytics_configuration"
                              THEN AnalyticsElements ELSE TokenValidityUnitsElements}

NoNested == [block |-> "none", list |-> Null, expanded |-> <<>>, flattened |-> Null,
             done |-> FALSE]

\* The list of the block as createInput and updateInput expand it.
Expand(block, list) ==
  IF block = "analytics_configuration" THEN expandAnaylticsConfiguration(list)
  ELSE expandTokenValidityUnits(list)

\* The struct of the block as update flattens it.
Flatten(block, expanded) ==
  IF block = "analytics_configuration" THEN flattenAnaylticsConfiguration(expanded)
  ELSE flattenTokenValidityUnits(expanded)

\* The list goes into a request (expanded) and what the remote service holds
\* of it comes back into the state (flattened).
ExpandFlatten ==
  /\ handler = "nested" /\ ~nested.done
  /\ nested' = [nested EXCEPT !.expanded = Expand(nested.block, nested.list),
                              !.flattened = Flatten(nested.block,
                                                    Expand(nested.block, nested.list)),
                              !.done = TRUE]
  /\ UNCHANGED <<handler, upcVars, lsVars, vVars, find>>

NestedInit ==
  nested \in IF handler = "nested"
             THEN UNION {{[NoNested EXCEPT !.block = block, !.list = list] :
                            list \in BlockLists(block)} : block \in Blocks}
             ELSE {NoNested}

NestedNext == ExpandFlatten

Init ==
  /\ handler \in {"UserPoolClient", "LogStream", "validStreamName",
                  "FindLogStreamByTwoPartKey", "nested"}
  /\ UPCInit
  /\ LSInit
  /\ VInit
  /\ FindInit
  /\ NestedInit

Next == UPCNext \/ LSNext \/ VNext \/ FindNext \/ NestedNext

Spec == Init /\ [][Next]_vars

\* The retry loop of Update is driven by the retry helper until it returns.
LiveSpec == Spec /\ WF_vars(UpdateAttempt)

\* ================================================================ claims
\* The characters of a string.
Chars(str) == {str[i] : i \in 1..Len(str)}
\* The number of segments the separator sep cuts str into.
Segments(str, sep) == Cardinality({i \in 1..Len(str) : str[i] = sep}) + 1

\* C1: ImportState, given an identifier that does not split on '/' into
\* exactly two segments, reports an error diagnostic, does not crash and
\* writes neither id nor user_pool_id to the state.
C1_ImportRejectsWrongSegmentCount ==
  (upcResult.op = "ImportState" /\ Segments(upcResult.req, "/") # 2)
    => /\ upcResult.err
       /\ ~upcResult.panic
       /\ ~upcState.present

\* C2: ImportState, given an identifier A/B of exactly two segments, reports
\* no error and sets user_pool_id = A and id = B.
C2_ImportSetsBothKeys ==
  (upcResult.op = "ImportState" /\ Segments(upcResult.req, "/") = 2)
    => LET cut == CHOOSE i \in 1..Len(upcResult.req) : upcResult.req[i] = "/"
       IN /\ ~upcResult.err /\ ~upcResult.panic
          /\ upcState.present
          /\ upcState.data.UserPoolID = Value(SubSeq(upcResult.req, 1, cut - 1))
          /\ upcState.data.ID = Value(SubSeq(upcResult.req, cut + 1, Len(upcResult.req)))

C2_Witness ==
  /\ upcResult.op = "ImportState" /\ upcResult.req = <<"p", "/", "c">>
  /\ upcState.present
  /\ upcState.data.UserPoolID = Value(<<"p">>) /\ upcState.data.ID = Value(<<"c">>)

\* C3: log-stream import returns an error exactly when the identifier does
\* not split on ':' into two segments; on error it returns no resource and
\* leaves id and log_group_name as they were, on success log_group_name is
\* the first segment and id the second.
C3_StreamImport ==
  lsResult.op = "Import"
    => LET id == lsResult.req
       IN /\ lsResult.err <=> Segments(id, ":") # 2
          /\ lsResult.err =>
                /\ lsResult.resources = 0
                /\ lsResult.d.id = id /\ lsResult.d.log_group_name = <<>>
                /\ lsD = NoD
          /\ ~lsResult.err =>
                LET cut == CHOOSE i \in 1..Len(id) : id[i] = ":"
                IN /\ lsResult.resources = 1
                   /\ lsResult.d.log_group_name = SubSeq(id, 1, cut - 1)
                   /\ lsResult.d.id = SubSeq(id, cut + 1, Len(id))
                   /\ lsD = lsResult.d

C3_Witness ==
  /\ lsResult.op = "Import" /\ lsResult.err
  /\ Segments(lsResult.req, ":") = 3
  /\ lsResult.resources = 0 /\ lsD = NoD

\* C4: Read removes the state without an error diagnostic when the lookup
\* reports not found, and reports an error and leaves the state as it was
\* when the lookup fails with any other error.
C4_ReadNotFoundRemovesState ==
  upcResult.op = "Read"
    => /\ upcResult.lookup = "notfound"
            => (~upcResult.err /\ ~upcState.present)
       /\ upcResult.lookup = "error"
            => (upcResult.err /\ ~upcResult.wrote /\ upcState.present)

C4_Witness ==
  /\ upcResult.op = "Read"
  /\ upcResult.lookup = "notfound"
  /\ ~upcResult.err /\ ~upcState.present /\ upcResult.wrote

\* C5 as stated: whenever the stream is absent at the remote service, every
\* Read of it, the one Create runs included, ends with the id cleared and
\* returns no error.
C5_AbsentStreamClearsId ==
  (lsResult.op \in {"Read", "Create"} /\ lsResult.absent)
    => (lsResult.d.id = <<>> /\ ~lsResult.err)

\* C5 amended: when the stream is absent at the remote service and the
\* listing does not fail with another error, a Read of a stored resource
\* ends with the id cleared and no error, and the Read that Create runs
\* returns an error and leaves the id set.
C5_AbsentStreamClearsIdUnlessNew ==
  (lsResult.absent /\ lsResult.lookup # "error")
    => /\ lsResult.op = "Read" => (lsResult.d.id = <<>> /\ lsD.id = <<>> /\ ~lsResult.err)
       /\ lsResult.op = "Create" => (lsResult.d.id # <<>> /\ lsD.id # <<>> /\ lsResult.err)

C5_Witness ==
  /\ lsResult.op = "Create" /\ lsResult.absent /\ lsResult.lookup = "notfound"
  /\ lsResult.err /\ lsD.id # <<>>

\* C6: for both resources a Delete whose remote call answers resource not
\* found ends without error, as does one whose call succeeds; any other
\* answer is surfaced as an error.
C6_DeleteIdempotent ==
  /\ upcResult.op = "Delete"
       => (upcResult.err
             <=> upcResult.answer \notin {"ok", ErrCodeResourceNotFoundException})
  /\ lsResult.op = "Delete"
       => (lsResult.err
             <=> lsResult.answer \notin {"ok", ErrCodeResourceNotFoundException})

\* A Delete of a client that an earlier Delete removed: the state still holds
\* the created client, the remote service does not, and nothing happened
\* out of band.
C6_Witness ==
  /\ upcResult.op = "Delete"
  /\ upcResult.answer = ErrCodeResourceNotFoundException /\ ~upcResult.err
  /\ upcState.present /\ ~IsNull(upcState.data.ClientSecret)
  /\ ~upcRemote.exists /\ ~upcDrift

\* The stored attributes that update() assigns mirror the remote client: a
\* value the remote service returned is stored as it is, a missing one as
\* null, or as the zero value where the attribute uses a legacy conversion.
Mirrors(x, p) == IF p = <<>> THEN IsNull(x) ELSE x = Value(p[1])
MirrorsOrZero(x, p, zero) == IF p = <<>> THEN x = Value(zero) ELSE x = Value(p[1])
MirrorsList(x, p) == IF p = <<>> THEN IsNull(x) ELSE ~IsNull(x) /\ Len(ValueOf(x)) = 1
StateMirrorsRemote ==
  LET data == upcState.data
      client == upcRemote.client
  IN /\ upcState.present /\ upcRemote.exists
     /\ Mirrors(data.ID, client.ClientId)
     /\ Mirrors(data.UserPoolID, client.UserPoolId)
     /\ Mirrors(data.Name, client.ClientName)
     /\ MirrorsOrZero(data.ClientSecret, client.ClientSecret, <<>>)
     /\ MirrorsOrZero(data.AccessTokenValidity, client.AccessTokenValidity, 0)
     /\ Mirrors(data.AuthSessionValidity, client.AuthSessionValidity)
     /\ MirrorsOrZero(data.ExplicitAuthFlows, client.ExplicitAuthFlows, {})
     /\ MirrorsList(data.AnalyticsConfiguration, client.AnalyticsConfiguration)
     /\ MirrorsList(data.TokenValidityUnits, client.TokenValidityUnits)
     /\ client.TokenValidityUnits # <<>> =>
          LET units == ValueOf(data.TokenValidityUnits)[1]
          IN /\ Mirrors(units.access_token, client.TokenValidityUnits[1].AccessToken)
             /\ Mirrors(units.id_token, client.TokenValidityUnits[1].IdToken)
             /\ Mirrors(units.refresh_token, client.TokenValidityUnits[1].RefreshToken)
     /\ client.AnalyticsConfiguration # <<>> =>
          LET ac == ValueOf(data.AnalyticsConfiguration)[1]
              in == client.AnalyticsConfiguration[1]
          IN /\ Mirrors(ac.application_arn, in.ApplicationArn)
             /\ Mirrors(ac.application_id, in.ApplicationId)
             /\ Mirrors(ac.external_id, in.ExternalId)
             /\ Mirrors(ac.role_arn, in.RoleArn)
             /\ Mirrors(ac.user_data_shared, in.UserDataShared)

\* C7: an Update whose remote call answers with the conflict code for a
\* number of attempts that leaves room in the retry budget, and would then
\* succeed, ends without error with the values the successful call returned
\* persisted (unless the client is deleted out of band meanwhile).
C7_UpdateRetriesUntilConflictClears ==
  (/\ upcPc = "retry"
   /\ upcUpd.attempts + upcUpd.conflicts < MaxAttempts
   /\ upcUpd.fault = "none"
   /\ RemoteHas(upcUpd.params.UserPoolId, upcUpd.params.ClientId))
    ~> (/\ upcPc = "idle" /\ upcResult.op = "Update"
        /\ \/ /\ upcResult.answer = "ok" /\ ~upcResult.err
              /\ StateMirrorsRemote
           \/ ~upcRemote.exists)

C7_Witness ==
  /\ upcPc = "idle" /\ upcResult.op = "Update"
  /\ upcResult.answer = "ok" /\ ~upcResult.err
  /\ upcResult.calls = MaxAttempts
  /\ StateMirrorsRemote

\* C8: Update always terminates, and when the remote service keeps
\* answering with the conflict code until the retry budget is used up,
\* Update has made MaxAttempts calls, reports the error and leaves the
\* state as it was.
C8_UpdateTerminates ==
  /\ (upcPc = "retry") ~> (upcPc = "idle")
  /\ [](upcPc = "retry" => upcUpd.attempts < MaxAttempts)
  /\ []((upcResult.op = "Update"
          /\ upcResult.answer = ErrCodeConcurrentModificationException)
         => (upcResult.err /\ ~upcResult.wrote /\ upcResult.calls = MaxAttempts))

C8_Witness ==
  /\ upcPc = "idle" /\ upcResult.op = "Update"
  /\ upcResult.answer = ErrCodeConcurrentModificationException
  /\ upcResult.err /\ ~upcResult.wrote /\ upcResult.calls = MaxAttempts

\* C9: after a successful Create followed by a successful Read, and while the
\* remote service has not changed since, every computed attribute of the
\* stored state holds what the remote service returned: the attributes of
\* the user-pool client mirror the remote client, the arn of the log stream
\* is the remote stream's.
C9_CreateReadMirrorsRemote ==
  /\ (/\ upcResult.op = "Read" /\ upcResult.afterCreate
       /\ upcResult.lookup = "found" /\ ~upcDrift /\ upcPc = "idle")
        => (~upcResult.err /\ StateMirrorsRemote)
  /\ (lsResult.op \in {"Create", "Read"} /\ lsResult.lookup = "found")
        => /\ ~lsResult.err
           /\ lsD.id # <<>>
           /\ lsD.name = lsD.id
           /\ lsD.arn = StreamArn(lsD.log_group_name, lsD.id)

C9_Witness ==
  /\ upcResult.op = "Read" /\ upcResult.afterCreate /\ ~upcResult.err
  /\ ~upcDrift /\ upcPc = "idle"
  /\ StateMirrorsRemote
  /\ upcState.data.ClientSecret = Value(<<"s">>)
  /\ upcState.data.AccessTokenValidity = Value(0)

\* C10: validStreamName returns no error exactly for the names without a
\* colon whose length is between 1 and 512.
C10_ValidStreamName ==
  handler = "validStreamName"
    => (vErrors = <<>> <=> (":" \notin Chars(vName) /\ Len(vName) \in 1..512))

C10_Witness ==
  /\ handler = "validStreamName"
  /\ Len(vName) = 512 /\ ":" \notin Chars(vName) /\ vErrors = <<>>

\* The page holds a stream of exactly this name.
HasName(page, name) ==
  ~page.nil /\ \E i \in 1..Len(page.LogStreams) : page.LogStreams[i].LogStreamName = name
\* The page holds a stream that has the name as a proper prefix.
HasLongerName(page, name) ==
  /\ ~page.nil
  /\ \E i \in 1..Len(page.LogStreams) :
       /\ HasPrefix(page.LogStreams[i].LogStreamName, name)
       /\ page.LogStreams[i].LogStreamName # name
\* The answer of the listing call of the lookup, and the pages it delivers.
FindAnswer == GroupAnswer(find.remote, find.fault, find.logGroupName)
Delivered == IF FindAnswer = "ok" THEN find.pages ELSE <<>>
FindReturned == find.kind \in {"found", "notfound", "error"}

\* C11: FindLogStreamByTwoPartKey, over any sequence of pages of the
\* prefix-filtered listing, returns a stream only if its name equals the
\* requested name exactly (never one that has the name as a proper prefix),
\* and returns not found if and only if no stream on any delivered page has
\* exactly that name, which includes the listing answering resource-not-found.
\* (A listing failing with another error returns that error.)  The function
\* the handlers call returns what the page-by-page lookup arrives at.
C11_FindExactName ==
  FindReturned =>
    LET r == FindLogStreamByTwoPartKey(find.remote, find.fault, find.pages,
                                       find.logGroupName, find.name)
        listed == \E i \in 1..Len(Delivered) : HasName(Delivered[i], find.name)
    IN /\ r.kind = find.kind /\ r.output = find.output
       /\ find.kind = "found" =>
            /\ find.output # <<>>
            /\ find.output[1].LogStreamName = find.name
            /\ \E i \in 1..Len(Delivered) : \E j \in 1..Len(Delivered[i].LogStreams) :
                 Delivered[i].LogStreams[j] = find.output[1]
       /\ find.kind # "found" => find.output = <<>>
       /\ FindAnswer \in {"ok", ErrCodeResourceNotFoundException}
            => (find.kind = "notfound" <=> ~listed)
       /\ FindAnswer = ErrCodeResourceNotFoundException => find.kind = "notfound"

\* A stream is found on the second page, after a page holding a stream
\* that has the requested name as a proper prefix.
C11_Witness ==
  /\ find.kind = "found" /\ find.asked = 2
  /\ HasLongerName(find.pages[1], find.name)
  /\ HasName(find.pages[2], find.name)

\* The operation of the UserPoolClient handler was stopped by an error
\* diagnostic before its remote call.
UpcRejected == upcResult.calls = 0 /\ upcResult.err /\ upcResult.answer = "none"

\* C12 as stated: each lifecycle operation of either resource that gets to
\* its remote call issues exactly one remote call, log-stream Read instead
\* issuing a bounded scan of pages; Create and Update never issue a second
\* remote call.
C12_OneCallPerOperation ==
  /\ upcResult.op \in {"Create", "Read", "Update", "Delete"}
       => (upcResult.calls = 1 \/ UpcRejected)
  /\ lsResult.op \in {"Create", "Delete"} => lsResult.calls + lsResult.asked = 1
  /\ lsResult.op = "Read" => (lsResult.calls = 0 /\ lsResult.asked \in 1..MaxPages)

\* C12 (amended): UserPoolClient Create, Read and Delete and LogStream Delete
\* issue exactly one remote call when they get to it; UserPoolClient Update
\* issues between one and MaxAttempts calls of the remote update; LogStream
\* Read issues only the listing calls of its scan, at least one and at most
\* one per page; LogStream Create issues the create call and, when that
\* succeeded, the listing calls of the Read it ends with.
C12_CallsPerOperation ==
  /\ upcResult.op \in {"Create", "Read", "Delete"}
       => (upcResult.calls = 1 \/ UpcRejected)
  /\ upcResult.op = "Update" => (upcResult.calls \in 1..MaxAttempts \/ UpcRejected)
  /\ lsResult.op = "Delete" => (lsResult.calls = 1 /\ lsResult.asked = 0)
  /\ lsResult.op = "Read" => (lsResult.calls = 0 /\ lsResult.asked \in 1..MaxPages)
  /\ lsResult.op = "Create" =>
       /\ lsResult.calls = 1
       /\ lsResult.answer # "ok" => lsResult.asked = 0
       /\ lsResult.answer = "ok" => lsResult.asked \in 1..MaxPages

\* A LogStream Create that issued the create call and then two listing calls.
C12_Witness ==
  lsResult.op = "Create" /\ lsResult.calls = 1 /\ lsResult.asked = 2

\* C13: the identity of a UserPoolClient is stable.  While the state holds
\* what a successful Create stored, through every Read and Update after it,
\* the state's id is the client id the remote service returned from the
\* create call and user_pool_id is the pool it was created in; and every
\* Update request, in flight or answered, and every Delete request carries
\* exactly that (user-pool id, client id) pair.
C13_IdentityStable ==
  upcResult.created # <<>> =>
    /\ upcResult.created[1] # <<>> /\ upcResult.created[2] # <<>>
    /\ upcState.present
    /\ Mirrors(upcState.data.UserPoolID, upcResult.created[1])
    /\ Mirrors(upcState.data.ID, upcResult.created[2])
    /\ upcPc = "retry" =>
         <<upcUpd.params.UserPoolId, upcUpd.params.ClientId>> = upcResult.created
    /\ (upcResult.op \in {"Update", "Delete"} /\ upcResult.calls > 0) =>
         upcResult.req = upcResult.created

\* A created client has been updated, the update changing the stored state.
C13_Witness ==
  /\ upcResult.created = << <<"q">>, <<"d">> >>
  /\ upcResult.op = "Update" /\ ~upcResult.err /\ upcResult.wrote
  /\ upcResult.req = upcResult.created

\* C14: in UserPoolClient Create and Update, when reading config, reading
\* plan or building the request input records an error diagnostic, the
\* operation ends with the error, has issued no remote call and has not
\* written state; no Update with such a diagnostic is inside the retried call.
C14_RejectedBeforeRemoteCall ==
  /\ (upcResult.op \in {"Create", "Update"} /\ upcResult.diag # "none") =>
       /\ upcResult.err
       /\ upcResult.calls = 0 /\ upcResult.answer = "none" /\ upcResult.req = <<>>
       /\ ~upcResult.wrote
  /\ upcPc = "retry" => upcUpd.diag = "none"

\* An Update of a stored client stopped by a diagnostic from building the
\* request.
C14_Witness ==
  /\ upcResult.op = "Update" /\ upcResult.diag = "input"
  /\ upcResult.calls = 0 /\ upcState.present

\* C15: the scan short-circuits.  In a lookup whose listing call succeeds,
\* with asked the number of pages asked for so far: no page was asked for
\* after one holding a stream of exactly the requested name, and the lookup
\* has returned that stream; while no page asked for held a match and the
\* last page asked for is not the last of the listing, the lookup has not
\* returned (it goes on to the next page), whether the pages were nil or
\* not; it returns not found only once the last page held no match.  The
\* function the handlers call asks for as many pages as this lookup.
C15_ScanShortCircuits ==
  (handler = "FindLogStreamByTwoPartKey" /\ FindAnswer = "ok") =>
    LET seen == \E i \in 1..find.asked : HasName(find.pages[i], find.name)
    IN /\ find.asked \in 0..Len(find.pages)
       /\ \A i \in 1..(find.asked - 1) : ~HasName(find.pages[i], find.name)
       /\ seen => find.kind = "found"
       /\ (~seen /\ find.asked < Len(find.pages)) => find.kind = "running"
       /\ (~seen /\ find.asked = Len(find.pages)) => find.kind = "notfound"
       /\ FindReturned =>
            FindLogStreamByTwoPartKey(find.remote, find.fault, find.pages,
                                      find.logGroupName, find.name).asked = find.asked

\* A nil page was skipped, the second page held the match and the third
\* page was never asked for.
C15_Witness ==
  /\ find.kind = "found" /\ find.asked = 2 /\ Len(find.pages) = 3
  /\ find.pages[1].nil

\* C16: Update retries only on the concurrent-modification code.  A call of
\* the remote update inside the retry loop that is answered with any other
\* error is the last one: Update returns with an error diagnostic that names
\* the client id, having made no further call, and the stored state is as
\* it was.
C16_UpdateStopsOnOtherError ==
  [][(upcPc = "retry" /\ upcUpd' # upcUpd) =>
       LET answer == IF upcUpd.conflicts > 0 THEN ErrCodeConcurrentModificationException
                     ELSE RemoteAnswer(upcUpd.fault, upcUpd.params.UserPoolId,
                                       upcUpd.params.ClientId)
       IN answer \notin {"ok", ErrCodeConcurrentModificationException} =>
            /\ upcPc' = "idle"
            /\ upcResult'.op = "Update" /\ upcResult'.answer = answer
            /\ upcResult'.calls = upcUpd.attempts + 1
            /\ upcResult'.err
            /\ upcResult'.named = <<ValueString(upcState.data.ID)>>
            /\ upcState' = upcState]_vars

\* An Update whose first call met a conflict and whose second call failed
\* with the internal-error code.
C16_Witness ==
  /\ upcResult.op = "Update" /\ upcResult.answer = ErrCodeInternalErrorException
  /\ upcResult.calls = 2 /\ upcResult.err /\ ~upcResult.wrote
  /\ upcResult.named = <<ValueString(upcState.data.ID)>>

\* The elements of the list a run of the nested block mapping started from.
NestedElements == IF IsNull(nested.list) THEN <<>> ELSE ValueOf(nested.list)
\* The element of a token_validity_units list has none of its units set.
AllUnitsNull(e) ==
  IsNull(e.access_token) /\ IsNull(e.id_token) /\ IsNull(e.refresh_token)

\* C17 as stated: for both nested blocks, a list of no element expands to
\* no struct, which flattens to a null list, and a list of one element
\* expands and flattens to a list of one element with the same field
\* values, for token_validity_units also when all three units are null.
C17_NestedRoundTrips ==
  nested.done =>
    /\ Len(NestedElements) = 0 => (nested.expanded = <<>> /\ IsNull(nested.flattened))
    /\ Len(NestedElements) = 1 => nested.flattened = Value(<<NestedElements[1]>>)

\* C17 (amended): as above, but a token_validity_units element whose three
\* units are all null expands to a struct with no field set, and that
\* struct flattens to a null list, not to a list of one element.
C17_NestedRoundTripsUnlessAllNull ==
  nested.done =>
    LET allNull == /\ nested.block = "token_validity_units"
                   /\ Len(NestedElements) = 1
                   /\ AllUnitsNull(NestedElements[1])
    IN /\ Len(NestedElements) = 0 => (nested.expanded = <<>> /\ IsNull(nested.flattened))
       /\ (Len(NestedElements) = 1 /\ ~allNull) =>
            /\ nested.expanded # <<>>
            /\ nested.flattened = Value(<<NestedElements[1]>>)
       /\ allNull =>
            /\ nested.expanded = <<[AccessToken |-> <<>>, IdToken |-> <<>>,
                                     RefreshToken |-> <<>>]>>
            /\ IsNull(nested.flattened)

\* A token_validity_units element with one unit set and two null has gone
\* through the mapping and come back as it was.
C17_Witness ==
  /\ nested.done /\ nested.block = "token_validity_units"
  /\ nested.list = Value(<<[access_token |-> Null, id_token |-> Value("days"),
                            refresh_token |-> Null]>>)
  /\ nested.flattened = nested.list

\* C18: a Create whose remote create call fails leaves no local resource
\* behind.  LogStream Create returns an error, has set no id and has not run
\* Read (no listing call, no lookup); UserPoolClient Create reports an error
\* diagnostic and has written no state.  After a Create the id, respectively
\* the state, is set only if the remote create call succeeded.
C18_FailedCreateLeavesNothing ==
  /\ (lsResult.op = "Create" /\ lsResult.answer # "ok") =>
       /\ lsResult.err
       /\ lsResult.d.id = <<>> /\ lsD.id = <<>>
       /\ lsResult.asked = 0 /\ lsResult.lookup = "none"
  /\ (lsResult.op = "Create" /\ lsD.id # <<>>) => lsResult.answer = "ok"
  /\ (upcResult.op = "Create" /\ upcResult.calls > 0 /\ upcResult.answer # "ok") =>
       /\ upcResult.err
       /\ ~upcResult.wrote /\ ~upcState.present
       /\ upcResult.created = <<>>
  /\ (upcResult.op = "Create" /\ upcState.present) =>
       (upcResult.answer = "ok" /\ upcResult.wrote)

\* A UserPoolClient Create whose remote call failed with the internal-error
\* code.
C18_Witness ==
  /\ upcResult.op = "Create" /\ upcResult.calls = 1
  /\ upcResult.answer = ErrCodeInternalErrorException
  /\ upcResult.err /\ ~upcState.present
====
